---------------------------- MODULE Spec2Model ----------------------------
(***************************************************************************)
(* find-projects.py: discovery of the recent projects of the JetBrains     *)
(* products installed for one user.                                        *)
(*                                                                         *)
(* Text is modelled as a sequence of tokens.  A token is either a single   *)
(* character (a digit, ".", "/", "-", "~", a blank, a newline) or a word   *)
(* that the program treats as an opaque run of non-special characters      *)
(* ("IntelliJIdea", "home", "$USER_HOME$").  Two texts are equal exactly   *)
(* when their token sequences are equal.                                   *)
(***************************************************************************)
EXTENDS Integers, Sequences, FiniteSets, TLC

-----------------------------------------------------------------------------
(* Generic helpers *)

Range(s) == {s[i] : i \in 1..Len(s)}

Last(s) == s[Len(s)]

Front(s) == SubSeq(s, 1, Len(s) - 1)

\* All sequences without repetition that enumerate exactly the set S.
Orderings(S) ==
    {s \in [1..Cardinality(S) -> S] : \A i, j \in 1..Cardinality(S) : s[i] = s[j] => i = j}

\* Sequences over S of length 0..n.
SeqUpTo(S, n) == UNION {[1..m -> S] : m \in 0..n}

\* Outcome of a call: a value, or a raised exception.
Ok(v) == [exc |-> "none", val |-> <<v>>]

Raise(e) == [exc |-> e, val |-> <<>>]

Raised(r) == r.exc # "none"

Val(r) == r.val[1]

\* Python's None
None == [none |-> TRUE]

-----------------------------------------------------------------------------
(* PRODUCTS, the product catalog *)

ProductInfo(key, stem, base_dir) == [key |-> key, config_glob |-> stem, base_dir |-> base_dir]

\* config_glob holds the literal text before the trailing "*" of the pattern.
PRODUCTS ==
    << ProductInfo(<<"idea">>, <<"IntelliJIdea">>, "JetBrains"),
       ProductInfo(<<"idea", "-", "ce">>, <<"IdeaIC">>, "JetBrains"),
       ProductInfo(<<"webstorm">>, <<"WebStorm">>, "JetBrains"),
       ProductInfo(<<"clion">>, <<"CLion">>, "JetBrains"),
       ProductInfo(<<"goland">>, <<"GoLand">>, "JetBrains"),
       ProductInfo(<<"pycharm">>, <<"PyCharm">>, "JetBrains"),
       ProductInfo(<<"phpstorm">>, <<"PhpStorm">>, "JetBrains"),
       ProductInfo(<<"rider">>, <<"Rider">>, "JetBrains"),
       ProductInfo(<<"android", "-", "studio">>, <<"AndroidStudio">>, "Google") >>

NProducts == Len(PRODUCTS)

BaseDirs == {PRODUCTS[i].base_dir : i \in 1..NProducts}

-----------------------------------------------------------------------------
(* product_version: the regular expression \d{1,4}\.\d{1,2} and int() *)

Digits == {"0", "1", "2", "3", "4", "5", "6", "7", "8", "9"}

DigitValue(c) ==
    CASE c = "0" -> 0 [] c = "1" -> 1 [] c = "2" -> 2 [] c = "3" -> 3 [] c = "4" -> 4
      [] c = "5" -> 5 [] c = "6" -> 6 [] c = "7" -> 7 [] c = "8" -> 8 [] c = "9" -> 9

IsDigitAt(s, i) == i >= 1 /\ i <= Len(s) /\ s[i] \in Digits

\* int(text) for a text of decimal digits
RECURSIVE ParseInt(_)
ParseInt(s) ==
    IF s = <<>> THEN 0 ELSE 10 * ParseInt(Front(s)) + DigitValue(Last(s))

\* The pattern matches at position i with an epoch of n digits.
MatchesAt(s, i, n) ==
    /\ \A j \in i..(i + n - 1) : IsDigitAt(s, j)
    /\ i + n <= Len(s) /\ s[i + n] = "."
    /\ IsDigitAt(s, i + n + 1)

MatchStarts(s) == {i \in 1..Len(s) : \E n \in 1..4 : MatchesAt(s, i, n)}

\* re.search: the leftmost match, each quantifier greedy.
VersionToken(s) ==
    LET starts == MatchStarts(s)
        i == CHOOSE x \in starts : \A y \in starts : x <= y
        n == CHOOSE x \in 1..4 :
                 MatchesAt(s, i, x) /\ \A y \in 1..4 : MatchesAt(s, i, y) => y <= x
        m == IF IsDigitAt(s, i + n + 2) THEN 2 ELSE 1
    IN  [epoch |-> SubSeq(s, i, i + n - 1), major |-> SubSeq(s, i + n + 1, i + n + m)]

product_version(name) ==
    IF MatchStarts(name) # {}
    THEN LET version == VersionToken(name)
         IN  Ok(<<ParseInt(version.epoch), ParseInt(version.major)>>)
    ELSE Raise("ValueError")

\* A comparison that looks at the epoch alone.
TupleLess_EpochOnly(a, b) == a[1] < b[1]

\* Python's order on tuples of two integers: a < b
TupleLess(a, b) == a[1] < b[1] \/ (a[1] = b[1] /\ a[2] < b[2])


-----------------------------------------------------------------------------
(* The configuration tree: <config home>/<base_dir>/<config dir>/options/<file> *)

FileNames == {"recentProjects.xml", "recentSolutions.xml"}

\* What is found at <config dir>/options/<file>
Absent == [kind |-> "absent", wellformed |-> FALSE, legacy |-> <<>>, modern |-> <<>>]

Directory == [kind |-> "dir", wellformed |-> FALSE, legacy |-> <<>>, modern |-> <<>>]

Malformed == [kind |-> "file", wellformed |-> FALSE, legacy |-> <<>>, modern |-> <<>>]

\* A well-formed XML document, given by the elements that the two queries of
\* find_recent_projects match, in document order.  Each element is given by the
\* attribute the program reads from it: <<text>>, or <<>> when it is not there.
Document(legacy, modern) ==
    [kind |-> "file", wellformed |-> TRUE, legacy |-> legacy, modern |-> modern]

Attr(text) == <<text>>

NoAttr == <<>>

\* One entry of <config home>/<base_dir>
ConfigDir(name, projects, solutions) ==
    [name |-> name,
     options |-> [f \in FileNames |->
                    IF f = "recentProjects.xml" THEN projects ELSE solutions]]

\* pathlib's glob for a pattern "<stem>*": the entries whose name starts with
\* the stem, in the order the directory is listed.
GlobMatches(name, stem) ==
    Len(name) >= Len(stem) /\ SubSeq(name, 1, Len(stem)) = stem

find_config_directories(product, ls) ==
    SelectSeq(ls[product.base_dir],
              LAMBDA d : GlobMatches(d.name, product.config_glob))

\* max() without default=None: an empty sequence raises ValueError.
MaxByVersion_NoDefault(candidates) ==
    IF candidates = <<>> \/ \E i \in 1..Len(candidates) : Raised(product_version(candidates[i].name))
    THEN Raise("ValueError")
    ELSE LET key == [i \in 1..Len(candidates) |-> Val(product_version(candidates[i].name))]
             best == CHOOSE i \in 1..Len(candidates) :
                        /\ \A j \in 1..Len(candidates) : ~TupleLess(key[i], key[j])
                        /\ \A j \in 1..(i - 1) : TupleLess(key[j], key[i])
         IN  Ok(candidates[best])

\* A selection that leaves out the candidates without a version token.
MaxByVersion_Tolerant(candidates) ==
    LET good == SelectSeq(candidates, LAMBDA d : ~Raised(product_version(d.name)))
        key == [i \in 1..Len(good) |-> Val(product_version(good[i].name))]
    IN  IF good = <<>> THEN Ok(None)
        ELSE Ok(good[CHOOSE i \in 1..Len(good) :
                        /\ \A j \in 1..Len(good) : ~TupleLess(key[i], key[j])
                        /\ \A j \in 1..(i - 1) : TupleLess(key[j], key[i])])

\* max(candidates, key=product_version, default=None): the key of every
\* candidate is computed; the first candidate with the greatest key wins.
MaxByVersion(candidates) ==
    IF \E i \in 1..Len(candidates) : Raised(product_version(candidates[i].name))
    THEN Raise("ValueError")
    ELSE IF candidates = <<>>
    THEN Ok(None)
    ELSE LET key == [i \in 1..Len(candidates) |-> Val(product_version(candidates[i].name))]
             best == CHOOSE i \in 1..Len(candidates) :
                        /\ \A j \in 1..Len(candidates) : ~TupleLess(key[i], key[j])
                        /\ \A j \in 1..(i - 1) : TupleLess(key[j], key[i])
         IN  Ok(candidates[best])

FileNameOf(product) ==
    IF product.key = <<"rider">> THEN "recentSolutions.xml" ELSE "recentProjects.xml"

\* config_file.is_file() in the place of config_file.exists()
ConfigFileIsFile(dir, file_name) ==
    dir.options[file_name].kind = "file"

\* config_file.exists()
ConfigFileExists(dir, file_name) ==
    dir.options[file_name].kind # "absent"

\* A search that takes the latest directory among those holding the file.
find_latest_with_fallback(product, ls) ==
    LET holding == SelectSeq(find_config_directories(product, ls),
                             LAMBDA d : ConfigFileExists(d, FileNameOf(product)))
        selected == MaxByVersion(find_config_directories(product, ls))
    IN  IF Raised(selected) THEN selected
        ELSE IF holding = <<>> THEN Ok(None)
        ELSE Ok([dir |-> Val(MaxByVersion(holding)), file |-> FileNameOf(product)])

\* Returns None or the path of the registry, here the pair of the selected
\* directory and the file name below its options directory.
find_latest_recent_projects_file(product, ls) ==
    LET selected == MaxByVersion(find_config_directories(product, ls))
        file_name == FileNameOf(product)
    IN  IF Raised(selected) THEN selected
        ELSE IF Val(selected) = None THEN Ok(None)
        ELSE IF ConfigFileExists(Val(selected), file_name)
             THEN Ok([dir |-> Val(selected), file |-> file_name])
             ELSE Ok(None)

-----------------------------------------------------------------------------
(* pathlib.Path on POSIX *)

\* The components of a text, cut at every "/"; empty components vanish.
RECURSIVE Split(_, _, _)
Split(text, cur, acc) ==
    IF text = <<>>
    THEN IF cur = <<>> THEN acc ELSE Append(acc, cur)
    ELSE IF Head(text) = "/"
    THEN Split(Tail(text), <<>>, IF cur = <<>> THEN acc ELSE Append(acc, cur))
    ELSE Split(Tail(text), Append(cur, Head(text)), acc)

\* The leading slashes of a text: exactly two are kept as they are, any other
\* number collapses into one.
RootOf(text) ==
    IF text = <<>> \/ text[1] # "/" THEN <<>>
    ELSE IF Len(text) >= 2 /\ text[2] = "/" /\ ~(Len(text) >= 3 /\ text[3] = "/")
    THEN <<"/", "/">>
    ELSE <<"/">>

\* Path(text): "." components are dropped as well.
Path(text) ==
    [root |-> RootOf(text),
     parts |-> SelectSeq(Split(text, <<>>, <<>>), LAMBDA c : c # <<".">>)]

RECURSIVE Join(_)
Join(parts) ==
    IF parts = <<>> THEN <<>>
    ELSE IF Len(parts) = 1 THEN parts[1]
    ELSE parts[1] \o <<"/">> \o Join(Tail(parts))

\* str(path)
Str(path) ==
    IF path.root = <<>> /\ path.parts = <<>> THEN <<".">>
    ELSE path.root \o Join(path.parts)

\* path.name
NameOf(path) == IF path.parts = <<>> THEN <<>> ELSE Last(path.parts)

\* path.parent
ParentOf(path) ==
    IF path.parts = <<>> THEN path ELSE [path EXCEPT !.parts = Front(path.parts)]

\* path / child, for a child of one component
Child(path, child) == [path EXCEPT !.parts = Append(path.parts, child)]

\* The home directory of the user, and the working directory of the process.
Home == [root |-> <<"/">>, parts |-> << <<"home">>, <<"u">> >>]

Cwd == [root |-> <<"/">>, parts |-> << <<"home">>, <<"u">> >>]

\* path.expanduser() acts on a relative path whose first component starts
\* with "~"; a first component "~<name>" names the home of another account,
\* and there is none here, so that it raises RuntimeError.
StartsWithTilde(path) ==
    path.root = <<>> /\ path.parts # <<>> /\ Head(path.parts)[1] = "~"

CanExpand(path) == StartsWithTilde(path) => Head(path.parts) = <<"~">>

expanduser(path) ==
    IF StartsWithTilde(path)
    THEN [root |-> Home.root, parts |-> Home.parts \o Tail(path.parts)]
    ELSE path

-----------------------------------------------------------------------------
(* The file system below "/": a function from the locations that exist to *)
(* what is there.                                                          *)

File(text) == [kind |-> "file", text |-> text]

Dir == [kind |-> "dir", text |-> <<>>]

\* The location a path denotes: relative paths start at the working directory.
Loc(path) == IF path.root # <<>> THEN path.parts ELSE Cwd.parts \o path.parts

\* path.exists()
Exists(disk, path) == Loc(path) \in DOMAIN disk

\* path.is_file()
IsFile(disk, path) == Exists(disk, path) /\ disk[Loc(path)].kind = "file"

\* path.read_text(encoding='utf-8')
read_text(disk, path) ==
    LET loc == Loc(path) IN
    IF loc \in DOMAIN disk
    THEN IF disk[loc].kind = "file" THEN Ok(disk[loc].text) ELSE Raise("IsADirectoryError")
    ELSE IF \E n \in 1..(Len(loc) - 1) :
                SubSeq(loc, 1, n) \in DOMAIN disk /\ disk[SubSeq(loc, 1, n)].kind = "file"
    THEN Raise("NotADirectoryError")
    ELSE Raise("FileNotFoundError")

Whitespace == {" ", "\n", "\t"}

\* text.strip()
RECURSIVE strip(_)
strip(text) ==
    IF text = <<>> THEN text
    ELSE IF Head(text) \in Whitespace THEN strip(Tail(text))
    ELSE IF Last(text) \in Whitespace THEN strip(Front(text))
    ELSE text

-----------------------------------------------------------------------------
(* get_project and find_recent_projects *)

IdPrefix == <<"jetbrains-search-provider-">>

get_project(product, path, disk) ==
    LET project_dir == IF IsFile(disk, expanduser(path)) THEN ParentOf(path) ELSE path
        namefile == Child(Child(project_dir, <<".idea">>), <<".name">>)
        text == read_text(disk, namefile)
        name == IF Raised(text) THEN NameOf(path) ELSE strip(Val(text))
    IN  IF Raised(text) /\ text.exc # "FileNotFoundError"
        THEN text
        ELSE Ok([id |-> IdPrefix \o product.key \o <<"-">> \o Str(expanduser(path)),
                 name |-> name,
                 path |-> Str(path),
                 abspath |-> Str(expanduser(path))])

\* text.replace('$USER_HOME$', '~')
ReplaceUserHome(text) ==
    [i \in 1..Len(text) |-> IF text[i] = "$USER_HOME$" THEN "~" ELSE text[i]]

\* The set `paths` of find_recent_projects: the attribute of every element of
\* the legacy location, then of the modern one; an element without the
\* attribute raises KeyError.
PathsOf(elements) == {Path(ReplaceUserHome(e[1])) : e \in {x \in Range(elements) : x # NoAttr}}

\* The set without the update from the modern location.
RecentPaths_LegacyOnly(file) ==
    IF NoAttr \in Range(file.legacy) \/ NoAttr \in Range(file.modern)
    THEN Raise("KeyError")
    ELSE Ok(PathsOf(file.legacy))

RecentPaths(file) ==
    IF NoAttr \in Range(file.legacy) \/ NoAttr \in Range(file.modern)
    THEN Raise("KeyError")
    ELSE Ok(PathsOf(file.legacy) \cup PathsOf(file.modern))

\* The loop without the test that the expanded path exists.
RECURSIVE ResolveAll_NoExistsCheck(_, _, _)
ResolveAll_NoExistsCheck(product, order, disk) ==
    IF order = <<>> THEN Ok(<<>>)
    ELSE LET first == get_project(product, Head(order), disk)
             rest == ResolveAll_NoExistsCheck(product, Tail(order), disk)
         IN  IF ~CanExpand(Head(order)) THEN Raise("RuntimeError")
             ELSE IF Raised(first) THEN first
             ELSE IF Raised(rest) THEN rest
             ELSE Ok(<<Val(first)>> \o Val(rest))

\* The loop over `paths`, taken in the order `order`.
RECURSIVE ResolveAll(_, _, _)
ResolveAll(product, order, disk) ==
    IF order = <<>> THEN Ok(<<>>)
    ELSE LET path == Head(order) IN
         IF ~CanExpand(path) THEN Raise("RuntimeError")
         ELSE IF ~Exists(disk, expanduser(path)) THEN ResolveAll(product, Tail(order), disk)
         ELSE LET first == get_project(product, path, disk)
                  rest == ResolveAll(product, Tail(order), disk)
              IN  IF Raised(first) THEN first
                  ELSE IF Raised(rest) THEN rest
                  ELSE Ok(<<Val(first)>> \o Val(rest))

\* etree.parse(recent_projects_file)
ParseXml(file) ==
    IF file.kind = "dir" THEN Raise("IsADirectoryError")
    ELSE IF ~file.wellformed THEN Raise("ParseError")
    ELSE Ok(file)

\* The set `paths` built from the file, or the exception raised on the way.
paths_of(recent_projects_file) ==
    LET document == ParseXml(recent_projects_file.dir.options[recent_projects_file.file])
    IN  IF Raised(document) THEN document ELSE RecentPaths(Val(document))

\* list(find_recent_projects(product, recent_projects_file)), where `order` is
\* the order in which the set `paths` happens to be iterated.
find_recent_projects(product, recent_projects_file, disk, order) ==
    IF Raised(paths_of(recent_projects_file))
    THEN paths_of(recent_projects_file)
    ELSE ResolveAll(product, order, disk)

IterationOrders(recent_projects_file) ==
    IF Raised(paths_of(recent_projects_file))
    THEN {<<>>}
    ELSE Orderings(Val(paths_of(recent_projects_file)))

success(projects) == [kind |-> "success", projects |-> projects]

error(message, traceback) == [kind |-> "error", message |-> message, traceback |-> traceback]

-----------------------------------------------------------------------------
(* One run of main() *)

VARIABLES
    listing,      \* the entries of <config home>/<base_dir>, in glob order
    disk,         \* the file system the recorded paths point into
    pc,           \* position of the run
    idx,          \* position of the loop over PRODUCTS
    config_dir,   \* find_latest_recent_projects_file: config_dir
    config_file,  \* find_all_recent_projects: config_file
    paths,        \* find_recent_projects: the set `paths` of the current product
    projects,     \* the pairs find_all_recent_projects has yielded so far
    exc,          \* the exception that reached main()
    stdout,       \* the envelopes printed
    exitStatus    \* the completion status of the process

vars == <<listing, disk, pc, idx, config_dir, config_file, paths, projects, exc, stdout, exitStatus>>

\* The state in which main() starts, for a given environment.
Start(l, d) ==
    /\ listing = l
    /\ disk = d
    /\ pc = "locate"
    /\ idx = 1
    /\ config_dir = None
    /\ config_file = None
    /\ paths = {}
    /\ projects = <<>>
    /\ exc = "none"
    /\ stdout = <<>>
    /\ exitStatus = 0

\* config_file = find_latest_recent_projects_file(product)
Locate ==
    /\ pc = "locate"
    /\ idx <= NProducts
    /\ LET found == find_latest_recent_projects_file(PRODUCTS[idx], listing) IN
       IF Raised(found)
       THEN /\ pc' = "except"
            /\ exc' = found.exc
            /\ UNCHANGED <<config_dir, config_file>>
       ELSE /\ pc' = "collect"
            /\ config_dir' = Val(MaxByVersion(find_config_directories(PRODUCTS[idx], listing)))
            /\ config_file' = Val(found)
            /\ UNCHANGED exc
    /\ paths' = {}
    /\ UNCHANGED <<listing, disk, idx, projects, stdout, exitStatus>>

\* yield (product.key, list(find_recent_projects(product, config_file)))
\* or yield (product.key, [])
Collect ==
    /\ pc = "collect"
    /\ IF config_file = None
       THEN /\ projects' = Append(projects, <<PRODUCTS[idx].key, <<>>>>)
            /\ idx' = idx + 1
            /\ pc' = "locate"
            /\ UNCHANGED <<exc, paths>>
       ELSE \E order \in IterationOrders(config_file) :
              LET found == find_recent_projects(PRODUCTS[idx], config_file, disk, order) IN
              /\ paths' = IF Raised(paths_of(config_file)) THEN {}
                          ELSE Val(paths_of(config_file))
              /\ IF Raised(found)
                 THEN /\ pc' = "except"
                      /\ exc' = found.exc
                      /\ UNCHANGED <<projects, idx>>
                 ELSE /\ projects' = Append(projects, <<PRODUCTS[idx].key, Val(found)>>)
                      /\ idx' = idx + 1
                      /\ pc' = "locate"
                      /\ UNCHANGED exc
    /\ UNCHANGED <<listing, disk, config_dir, config_file, stdout, exitStatus>>

\* print(json.dumps(success(projects)))
Success ==
    /\ pc = "locate"
    /\ idx = NProducts + 1
    /\ stdout' = Append(stdout, success(projects))
    /\ pc' = "exited"
    /\ UNCHANGED <<listing, disk, idx, config_dir, config_file, paths, projects, exc, exitStatus>>

\* The handler without sys.exit(1)
Error_NoExit ==
    /\ pc = "except"
    /\ stdout' = Append(stdout, error(exc, exc))
    /\ pc' = "exited"
    /\ UNCHANGED <<listing, disk, idx, config_dir, config_file, paths, projects, exc, exitStatus>>

\* except Exception as exc: print(json.dumps(error(...))); sys.exit(1)
Error ==
    /\ pc = "except"
    /\ stdout' = Append(stdout, error(exc, exc))
    /\ exitStatus' = 1
    /\ pc' = "exited"
    /\ UNCHANGED <<listing, disk, idx, config_dir, config_file, paths, projects, exc>>

Next == Locate \/ Collect \/ Success \/ Error

-----------------------------------------------------------------------------
(* Environments *)

\* Texts recorded in a registry, and the locations they point to
HomeP == <<"$USER_HOME$", "/", "p">>

TildeP == <<"~", "/", "p">>

AbsP == <<"/", "home", "/", "u", "/", "p">>

AbsQ == <<"/", "srv", "/", "q">>

At(text) == Loc(Path(text))

DiskOf(nodes) == [l \in {n[1] : n \in nodes} |-> (CHOOSE n \in nodes : n[1] = l)[2]]

BaseNodes ==
    {<<At(<<"/">>), Dir>>, <<At(<<"/", "home">>), Dir>>, <<At(<<"/", "home", "/", "u">>), Dir>>,
     <<At(<<"/", "srv">>), Dir>>}

NameFileIn(dirText, text) ==
    {<<At(dirText \o <<"/", ".idea">>), Dir>>,
     <<At(dirText \o <<"/", ".idea", "/", ".name">>), File(text)>>}

MyApp == <<" ", "My", " ", "App", "\n">>

\* p is a project directory with a name file; q does not exist.
DiskNamed == DiskOf(BaseNodes \cup {<<At(AbsP), Dir>>} \cup NameFileIn(AbsP, MyApp))

\* p is a project directory without a name file; q does not exist.
DiskUnnamed == DiskOf(BaseNodes \cup {<<At(AbsP), Dir>>})

\* p is a project file in the home directory, which has a name file.
DiskProjectFile ==
    DiskOf(BaseNodes \cup {<<At(AbsP), File(<<>>)>>}
             \cup NameFileIn(<<"/", "home", "/", "u">>, MyApp))

\* p does not exist; q is a project directory with a name file.
DiskOther == DiskOf(BaseNodes \cup {<<At(AbsQ), Dir>>} \cup NameFileIn(AbsQ, <<"Q">>))

\* Version texts
V2023_1 == <<"2", "0", "2", "3", ".", "1">>

\* A config directory of product p whose name ends in `suffix`, holding `own`
\* at the registry file of the product and `other` at the other file name.
Entry(p, suffix, own, other) ==
    [name |-> PRODUCTS[p].config_glob \o suffix,
     options |-> [f \in FileNames |-> IF f = FileNameOf(PRODUCTS[p]) THEN own ELSE other]]

\* The listing in which the config directories `entries` (of any products) exist.
ListingOf(entries) ==
    [b \in BaseDirs |->
        SelectSeq(entries, LAMBDA e : \E i \in 1..NProducts :
                     PRODUCTS[i].base_dir = b /\ GlobMatches(e.name, PRODUCTS[i].config_glob))]

DocBoth == Document(<<Attr(HomeP)>>, <<Attr(AbsP)>>)

DocGone == Document(<<Attr(AbsQ)>>, <<>>)

DocMixed == Document(<<Attr(AbsQ), Attr(HomeP)>>, <<Attr(AbsQ)>>)

\* The state of a run that is about to process product i, none of the
\* products before it having a config directory.
MidRun(l, d, i, at, dir, file) ==
    /\ listing = l
    /\ disk = d
    /\ pc = at
    /\ idx = i
    /\ config_dir = dir
    /\ config_file = file
    /\ paths = {}
    /\ projects = [j \in 1..(i - 1) |-> <<PRODUCTS[j].key, <<>>>>]
    /\ exc = "none"
    /\ stdout = <<>>
    /\ exitStatus = 0

(* Whole runs: at most MaxInstalled products are installed, each with one  *)
(* config directory.                                                       *)
MaxInstalled == 2

RunEntries(p) ==
    {Entry(p, V2023_1, own, Absent) :
        own \in {Absent, Directory, Malformed, DocBoth, DocGone, DocMixed}}

RECURSIVE RunEntrySeqs(_, _)
RunEntrySeqs(from, n) ==
    IF n = 0 \/ from > NProducts THEN {<<>>}
    ELSE LET later == RunEntrySeqs(from + 1, n)
             fewer == RunEntrySeqs(from + 1, n - 1)
         IN  later \cup {<<e>> \o rest : e \in RunEntries(from), rest \in fewer}

RunListings == {ListingOf(es) : es \in RunEntrySeqs(1, MaxInstalled)}

Init == \E l \in RunListings : Start(l, DiskNamed)

Spec == Init /\ [][Next]_vars

(* Selection of the config directory: one of the last products of the     *)
(* catalog has up to MaxDirs config directories, listed in any order, and  *)
(* no other product is installed.                                          *)
MaxDirs == 2

Suffixes ==
    { <<"2", "0", "2", "3", ".", "3">>,
      <<"2", "0", "2", "3", ".", "1", "0">>,
      <<"2", "0", "2", "3", ".", "1", "0", "5">>,
      <<"9", "9", "9", ".", "2">>,
      <<"CE", "2", "0", "2", "3", ".", "1">>,
      <<"1", "2", "0", "2", "3", ".", "3">>,
      <<"2", "0", "2", "3">>,
      <<>> }

LocateEntries(p) ==
    {Entry(p, suffix, own, Absent) : suffix \in Suffixes, own \in {Absent, Malformed, DocBoth}}

DistinctNames(es) == \A i, j \in 1..Len(es) : es[i].name = es[j].name => i = j

LocateListings(p) ==
    {ListingOf(es) : es \in {x \in SeqUpTo(LocateEntries(p), MaxDirs) : DistinctNames(x)}}

LocateProducts == {NProducts - 1, NProducts}

InitLocate ==
    \E p \in LocateProducts : \E l \in LocateListings(p) :
        MidRun(l, DiskNamed, p, "locate", None, None)

SpecLocate == InitLocate /\ [][Next]_vars

(* Reading one registry: the last product of the catalog has one config    *)
(* directory, whose registry holds up to MaxEntries elements at each of    *)
(* the two locations, and no other product is installed.                   *)
MaxEntries == 2

Attrs == {NoAttr, Attr(HomeP), Attr(TildeP), Attr(AbsP), Attr(AbsQ)}

Documents ==
    {Document(legacy, modern) :
        legacy \in SeqUpTo(Attrs, MaxEntries), modern \in SeqUpTo(Attrs, MaxEntries)}

Disks == {DiskNamed, DiskUnnamed, DiskProjectFile, DiskOther}

InitResolve ==
    \E doc \in Documents : \E d \in Disks :
        MidRun(ListingOf(<<Entry(NProducts, V2023_1, doc, Absent)>>), d,
               NProducts, "locate", None, None)

SpecResolve == InitResolve /\ [][Next]_vars

-----------------------------------------------------------------------------
(* Vocabulary of the properties, stated apart from the program's own      *)
(* definitions.                                                            *)

Candidates(i) == find_config_directories(PRODUCTS[i], listing)

\* The name holds one to four digits, a dot and a digit.
HasVersionToken(name) ==
    \E i \in 1..Len(name) : \E n \in 1..4 :
        /\ i + n + 1 <= Len(name)
        /\ \A j \in i..(i + n - 1) : name[j] \in Digits
        /\ name[i + n] = "."
        /\ name[i + n + 1] \in Digits

Unversioned(i) == \E k \in 1..Len(Candidates(i)) : ~HasVersionToken(Candidates(i)[k].name)

VersionOf(dir) == Val(product_version(dir.name))

\* (epoch, major) pairs in lexicographic order, both compared as integers
Older(a, b) == a[1] < b[1] \/ (a[1] = b[1] /\ a[2] < b[2])

\* The candidates of product i that no other candidate of it exceeds
Highest(i) ==
    LET dirs == Range(Candidates(i))
        version == [d \in dirs |-> VersionOf(d)]
    IN  {d \in dirs : \A e \in dirs : ~Older(version[d], version[e])}

RegistryName(i) ==
    IF PRODUCTS[i].key = <<"rider">> THEN "recentSolutions.xml" ELSE "recentProjects.xml"

RegistryOf(i, dir) == dir.options[RegistryName(i)]

\* Product i has no config directory, or none of its highest has a registry.
EmptyHanded(i) ==
    \/ Candidates(i) = <<>>
    \/ /\ ~Unversioned(i)
       /\ \A d \in Highest(i) : RegistryOf(i, d).kind = "absent"

Exited == pc = "exited" /\ Len(stdout) = 1

Succeeded == Exited /\ stdout[1].kind = "success"

Failed == Exited /\ stdout[1].kind = "error"

Texts(elements) == {e[1] : e \in {x \in Range(elements) : x # NoAttr}}

WithTilde(text) == [i \in 1..Len(text) |-> IF text[i] = "$USER_HOME$" THEN "~" ELSE text[i]]

\* The recorded text, home shorthand expanded, names something that exists.
OnDisk(text) == Loc(expanduser(Path(WithTilde(text)))) \in DOMAIN disk

Complete(doc) ==
    /\ doc.kind = "file" /\ doc.wellformed
    /\ NoAttr \notin Range(doc.legacy) /\ NoAttr \notin Range(doc.modern)

\* Every highest config directory of product i holds a complete registry
\* with entries, all of them pointing at paths that do not exist.
OnlyMissing(i) ==
    /\ Candidates(i) # <<>> /\ ~Unversioned(i)
    /\ \A d \in Highest(i) :
          /\ Complete(RegistryOf(i, d))
          /\ Texts(RegistryOf(i, d).legacy) \cup Texts(RegistryOf(i, d).modern) # {}
          /\ \A t \in Texts(RegistryOf(i, d).legacy) \cup Texts(RegistryOf(i, d).modern) :
                ~OnDisk(t)

-----------------------------------------------------------------------------
(* Properties of whole runs *)

\* C1: a success envelope holds one (key, list) pair per entry of PRODUCTS,
\* in the order of PRODUCTS; a product without config directory, or whose
\* selected directory has no registry file, contributes an empty list and
\* is never the product at which a run fails.
C1_OnePairPerProduct ==
    /\ Succeeded =>
          /\ Len(stdout[1].projects) = NProducts
          /\ \A i \in 1..NProducts :
                /\ stdout[1].projects[i][1] = PRODUCTS[i].key
                /\ EmptyHanded(i) => stdout[1].projects[i][2] = <<>>
    /\ exc # "none" => ~EmptyHanded(idx)

C1_Witness ==
    /\ Succeeded
    /\ \E i, j, k \in 1..NProducts :
          /\ Candidates(i) = <<>>
          /\ Candidates(j) # <<>> /\ EmptyHanded(j)
          /\ stdout[1].projects[k][2] # <<>>

\* The registry of some installed product is not valid XML.
SomeRegistryMalformed ==
    \E i \in 1..NProducts : \E d \in Range(Candidates(i)) :
        RegistryOf(i, d).kind = "file" /\ ~RegistryOf(i, d).wellformed

\* The run is at a position from which one of its steps can be taken.
CanStep ==
    \/ pc = "locate" /\ idx <= NProducts + 1
    \/ pc = "collect" /\ idx <= NProducts
    \/ pc = "except"

C2_Envelope ==
    /\ pc # "exited" => stdout = <<>> /\ CanStep
    /\ pc = "exited" =>
          /\ Len(stdout) = 1
          /\ IF exc = "none"
             THEN stdout[1].kind = "success" /\ exitStatus = 0
             ELSE stdout[1].kind = "error" /\ exitStatus # 0
          /\ SomeRegistryMalformed => stdout[1].kind = "error"

\* The number of steps a run has at most left is bounded by MaxRank - Rank.
MaxRank == 2 * NProducts + 4

Rank ==
    CASE pc = "locate" -> 2 * idx
      [] pc = "collect" -> 2 * idx + 1
      [] pc = "except" -> MaxRank - 1
      [] pc = "exited" -> MaxRank

\* C2: every run terminates (it can always take a step until it has exited,
\* and every step brings it closer to the exit), and has then printed
\* exactly one envelope: the success envelope with status zero, or, when a
\* step failed, the error envelope alone with a non-zero status.
C2_OneEnvelope ==
    /\ [](C2_Envelope)
    /\ [][Rank < Rank' /\ Rank' <= MaxRank]_vars

C2_Witness ==
    /\ Failed
    /\ \E k \in 1..Len(projects) : projects[k][2] # <<>>

\* C5: the ids of all records of a success envelope are pairwise distinct,
\* within one product and across products.
C5_DistinctIds ==
    Succeeded =>
        \A i, j \in 1..NProducts :
            \A a \in 1..Len(stdout[1].projects[i][2]) :
                \A b \in 1..Len(stdout[1].projects[j][2]) :
                    (i # j \/ a # b) =>
                        stdout[1].projects[i][2][a].id # stdout[1].projects[j][2][b].id

\* C8 as claimed: the registry path is returned only when a regular file is
\* there; a directory at that path gives None, and no failure.
C8_OnlyRegularFile ==
    /\ pc = "collect" =>
          (config_file # None <=>
              config_dir # None /\ RegistryOf(idx, config_dir).kind = "file")
    /\ exc # "IsADirectoryError"

\* C8, amended: the registry path (recentSolutions.xml for rider,
\* recentProjects.xml otherwise) is returned whenever something exists
\* there, a regular file or a directory, and None only when nothing does;
\* a directory there makes the run fail with IsADirectoryError.
C8_WheneverExists ==
    /\ pc = "collect" =>
          IF config_dir # None /\ RegistryOf(idx, config_dir).kind # "absent"
          THEN config_file = [dir |-> config_dir, file |-> RegistryName(idx)]
          ELSE config_file = None
    /\ (config_file # None /\ config_file.dir.options[config_file.file].kind = "dir") =>
          pc = "collect" \/ exc = "IsADirectoryError"
    /\ exc = "IsADirectoryError" /\ pc = "exited" => Failed /\ exitStatus = 1

C8_Witness ==
    /\ Failed /\ exc = "IsADirectoryError"
    /\ PRODUCTS[idx].key = <<"rider">>
    /\ config_file.file = "recentSolutions.xml"

\* C9: every record has an abspath that exists; a registry whose entries all
\* point at missing paths gives an empty list and is never the registry at
\* which a run fails.
C9_MissingPathsDropped ==
    /\ \A i \in 1..Len(projects) :
          /\ \A r \in Range(projects[i][2]) : Loc(Path(r.abspath)) \in DOMAIN disk
          /\ OnlyMissing(i) => projects[i][2] = <<>>
    /\ Succeeded => stdout[1].projects = projects
    /\ exc # "none" => ~OnlyMissing(idx)

C9_Witness ==
    /\ Succeeded
    /\ \E i, j \in 1..NProducts :
          /\ OnlyMissing(i)
          /\ projects[j][2] # <<>>
          /\ \E d \in Highest(j) : \E t \in Texts(RegistryOf(j, d).legacy) : ~OnDisk(t)

-----------------------------------------------------------------------------
(* Properties of the selection of the config directory *)

C4_SelectsMaximum ==
    pc = "collect" =>
        /\ config_dir = None <=> Candidates(idx) = <<>>
        /\ config_dir # None => config_dir \in Highest(idx)

C4_Witness ==
    /\ pc = "collect"
    /\ config_dir # None
    /\ VersionOf(config_dir) = <<2023, 10>>
    /\ Candidates(idx)[1] = config_dir
    /\ \E d \in Range(Candidates(idx)) : VersionOf(d) = <<2023, 3>>

\* The candidates of product i that some other candidate of it exceeds
Lower(i) == Range(Candidates(i)) \ Highest(i)

\* The listing in which the registry of the config directory `name` of
\* product i is `registry`.
ListingWith(i, name, registry) ==
    LET old == listing[PRODUCTS[i].base_dir] IN
    [listing EXCEPT ![PRODUCTS[i].base_dir] =
        [k \in 1..Len(old) |->
            IF old[k].name = name
            THEN [old[k] EXCEPT !.options[RegistryName(i)] = registry]
            ELSE old[k]]]

Alternatives == {Absent, Directory, Malformed, DocBoth}

\* C10: the registry, when there is one, lies in a highest-version config
\* directory; what the lower-version directories hold at the registry path
\* changes nothing of what is found; a product whose highest-version
\* directory has no registry yields an empty list, and a run fails on a
\* malformed registry only when it is the one of the selected directory.
C10_OnlyHighestConsulted ==
    /\ pc = "collect" =>
          /\ config_file # None => config_file.dir \in Highest(idx)
          /\ \A d \in Lower(idx) : \A r \in Alternatives :
                find_latest_recent_projects_file(PRODUCTS[idx], ListingWith(idx, d.name, r))
                    = Ok(config_file)
    /\ \A i \in 1..Len(projects) : EmptyHanded(i) => projects[i][2] = <<>>
    /\ exc = "ParseError" =>
          /\ config_file # None
          /\ config_file.dir = config_dir
          /\ config_dir \in Highest(idx)
          /\ ~RegistryOf(idx, config_dir).wellformed

C10_Witness ==
    /\ Succeeded
    /\ \E i \in 1..NProducts :
          /\ projects[i][2] = <<>>
          /\ \E d \in Lower(i) : RegistryOf(i, d).kind = "file" /\ RegistryOf(i, d).wellformed

-----------------------------------------------------------------------------
(* Properties of the reading of one registry *)

\* The registry that config_file names
Registry == config_file.dir.options[config_file.file]

\* find_recent_projects has run on config_file.
Parsed == config_file # None /\ pc # "collect" /\ exc # "ValueError"

\* The union of the texts at the two locations, as paths
UnionOfLocations ==
    {Path(WithTilde(t)) : t \in Texts(Registry.legacy) \cup Texts(Registry.modern)}

ExpectedName(path) ==
    LET expanded == expanduser(path)
        root == IF IsFile(disk, expanded) THEN ParentOf(expanded) ELSE expanded
        namefile == Child(Child(root, <<".idea">>), <<".name">>)
    IN  IF Exists(disk, namefile) THEN strip(disk[Loc(namefile)].text) ELSE NameOf(path)

\* C7: the record of a recorded path that exists, written with ~ or not,
\* is named after the trimmed content of <project root>/.idea/.name, the
\* project root being the parent of the expanded path when that is a file
\* and the expanded path otherwise; without that file it is named after the
\* last component of the recorded path.
C7_NameFromProjectRoot ==
    (Parsed /\ exc = "none") =>
        \A q \in paths :
            Exists(disk, expanduser(q)) =>
                \E r \in Range(projects[idx - 1][2]) :
                    r.path = Str(q) /\ r.name = ExpectedName(q)

=============================================================================
